---- MODULE Spec2Model ----
(***************************************************************************)
(* GC tracing add-on: the flight recorder (src/src/flight-recorder.cpp)    *)
(* and the reachability index, watch set and session driver                *)
(* (src/src/gc-tracing.cpp).                                               *)
(*                                                                         *)
(* jl_value_t* / jl_gcframe_t* / jl_task_t* / jl_module_t* values are      *)
(* modelled as strings: "nullptr" is the null pointer, Objects are the     *)
(* non-null addresses the host collector hands to the callbacks.  An       *)
(* Object* (m_parent) is modelled by the key of the g_index element it     *)
(* points to (unordered_map elements never move), or "nullptr".            *)
(***************************************************************************)
EXTENDS Integers, Sequences, FiniteSets, TLC

\* ------------------------------------------------------------------ bounds
\* Number of callbacks the host collector makes while a recording is on, over
\* the whole run; no recording starts once they are used up.
MaxReports == 2
\* Capacity of the singleton g_flight_recorder (2048 in the source), scaled.
FRCapacity == 3
\* Largest array position / field index / byte count the host reports.
MaxPos == 1
\* Number of callbacks the host collector makes while no recording is on.
MaxOutside == 1
\* Largest capacity a FlightRecorder is constructed with (FRSpec).
MaxCapacity == 3
\* Number of calls of flight_recorder_insert made on one recorder (FRSpec).
MaxCalls == 5
\* Largest argument of flight_recorder_dump_n (FRSpec).
MaxDump == 2

\* ------------------------------------------------------- program constants
\* default of the constructor parameter message_sz, used by the singleton
MessageSz == 512
\* flight_recorder_dump_n(128) in STOP_AND_DEBUG
StopDumpN == 128
\* while (gc_num.pause < 2)
WarmupPauses == 2
\* std::numeric_limits<uint64_t>::max(), the default of dump's parameter, as
\* the largest integer of the model checker
MaxNumEntries == 2147483647

\* ------------------------------------------------------------ input domains
nullptr == "nullptr"
Objects == {"A", "X"}
Pointers == Objects \cup {nullptr}
Names == {"main", "field1"}
Positions == 0..MaxPos

\* The host's type layout (jl_field_names): the name of the i-th field.
FieldName(i) == IF i = 0 THEN "field1" ELSE "main"

VARIABLES
    g_targets,                  \* unordered_set<jl_value_t*>
    g_recording,                \* bool
    g_index,                    \* unordered_map<jl_value_t*, Object>
    m_capacity,                 \* FlightRecorder: capacity of m_array (const)
    m_end, m_is_full,           \* FlightRecorder cursor and full flag
    m_array, m_buffer,          \* FlightRecorder entries and message arena
    g_flight_recorder_enabled,  \* bool
    gc_num_pause,               \* host: collections run so far (saturating)
    pc,                         \* where jl_gc_trace is: idle, warmup, full
    proc,                       \* running, killed (SIGTRAP), hung (endless loop)
    found,                      \* stdout: [target_found] reports of the session
    trace_out,                  \* stdout: what the last jl_gc_trace printed
    fr_out,                     \* stdout: lines of the last flight recorder dump
    reports,                    \* history: callbacks made in this recording
    nreports,                   \* history: callbacks made in all recordings
    watched,                    \* history: g_targets when the recording began
    late,                       \* history: pointers added during the recording
    ret,                        \* what the last flight_recorder_insert returned
    inserted,                   \* history: the insertions made while enabled
    ncalls,                     \* history: calls of flight_recorder_insert
    noutside                    \* history: callbacks made while not recording

vars == <<g_targets, g_recording, g_index, m_capacity, m_end, m_is_full, m_array, m_buffer,
          g_flight_recorder_enabled, gc_num_pause, pc, proc, found, trace_out,
          fr_out, reports, nreports, watched, late, ret, inserted, ncalls,
          noutside>>

\* The history of the recorder's C API.  The callbacks of gc-tracing.cpp reach
\* the recorder through FR(...) only and discard what it returns; the history
\* is kept where the C API is driven directly (FRSpec).
api == <<ret, inserted, ncalls>>

Min(a, b) == IF a < b THEN a ELSE b

\* ------------------------------------------------- FlightRecorder (class)
\* The recorder as one value, so that a handler can thread it through the
\* FR(...) calls it makes.
Recorder == [m_capacity |-> m_capacity, m_end |-> m_end, m_is_full |-> m_is_full,
             m_array |-> m_array, m_buffer |-> m_buffer]

\* calloc'ed Entry and message slot
ZeroEntry == [m_source |-> <<"">>, m_line |-> 0, m_function |-> ""]
EmptyMessage == <<>>

\* FlightRecorder::FlightRecorder(capacity, message_sz)
FlightRecorder(capacity) ==
    [m_capacity |-> capacity, m_end |-> 0, m_is_full |-> FALSE,
     m_array |-> [k \in 0..(capacity - 1) |-> ZeroEntry],
     m_buffer |-> [k \in 0..(capacity - 1) |-> EmptyMessage]]

\* FlightRecorder::capacity
capacity(r) == r.m_capacity

\* FlightRecorder::size
size(r) == IF r.m_is_full THEN capacity(r) ELSE r.m_end

\* insert_c_api that wraps the cursor without setting m_is_full
insert_c_api_neverfull(r, source, line, function) ==
    LET slot == r.m_end
    IN [rec |-> [m_capacity |-> r.m_capacity,
                 m_end |-> (slot + 1) % r.m_capacity,
                 m_is_full |-> r.m_is_full,
                 m_array |-> [r.m_array EXCEPT ![slot] =
                                 [m_source |-> source, m_line |-> line,
                                  m_function |-> function]],
                 m_buffer |-> r.m_buffer],
        buffer |-> slot,
        buffer_sz |-> MessageSz]

\* insert_c_api that sets m_is_full at every insertion
insert_c_api_fullearly(r, source, line, function) ==
    LET slot == r.m_end
    IN [rec |-> [m_capacity |-> r.m_capacity,
                 m_end |-> (slot + 1) % r.m_capacity,
                 m_is_full |-> TRUE,
                 m_array |-> [r.m_array EXCEPT ![slot] =
                                 [m_source |-> source, m_line |-> line,
                                  m_function |-> function]],
                 m_buffer |-> r.m_buffer],
        buffer |-> slot,
        buffer_sz |-> MessageSz]

\* FlightRecorder::insert_c_api: writes the entry at m_end, advances the
\* cursor; .buffer is the slot whose message buffer is returned.
insert_c_api(r, source, line, function) ==
    LET slot == r.m_end
        wrap == (slot + 1 = capacity(r))
    IN [rec |-> [m_capacity |-> r.m_capacity,
                 m_end |-> IF wrap THEN 0 ELSE slot + 1,
                 m_is_full |-> IF wrap THEN TRUE ELSE r.m_is_full,
                 m_array |-> [r.m_array EXCEPT ![slot] =
                                 [m_source |-> source, m_line |-> line,
                                  m_function |-> function]],
                 m_buffer |-> r.m_buffer],
        buffer |-> slot,
        buffer_sz |-> MessageSz]

\* to_array_index that takes the logical index for the physical one
to_array_index_identity(r, index) ==
    IF index >= size(r) \/ index < 0 THEN -1 ELSE index

\* to_array_index that starts from the cursor whether the buffer is full or not
to_array_index_offset(r, index) ==
    IF index >= size(r) \/ index < 0 THEN -1
    ELSE (r.m_end + index) % capacity(r)

\* FlightRecorder::to_array_index; -1 stands for the std::exit(1) path
to_array_index(r, index) ==
    IF index >= size(r) \/ index < 0 THEN -1
    ELSE IF ~r.m_is_full THEN index
    ELSE IF index < capacity(r) - r.m_end THEN r.m_end + index
    ELSE index - (capacity(r) - r.m_end)

\* basename(3) of a path, given as the sequence of its components
basename(path) == path[Len(path)]

\* dump that starts from the oldest entry of the buffer
dump_oldest(r, max_num_entries) ==
    LET num_entries == Min(size(r), max_num_entries)
    IN [n \in 1..num_entries |->
           LET k == to_array_index(r, n - 1)
           IN [j |-> num_entries - n,
               m_source |-> basename(r.m_array[k].m_source),
               m_line |-> r.m_array[k].m_line,
               m_function |-> r.m_array[k].m_function,
               message |-> r.m_buffer[k]]]

\* mutant: the loop of dump starts and ends one index too late
dump_indices_late(r, max_num_entries) ==
    LET num_entries == Min(size(r), max_num_entries)
    IN [n \in 1..num_entries |-> size(r) - num_entries + n]

\* The loop of FlightRecorder::dump, `for (i = size() - num_entries,
\* N = size(); i < N; i++)': the logical indices it passes to to_array_index,
\* in the order of the iterations.
dump_indices(r, max_num_entries) ==
    LET num_entries == Min(size(r), max_num_entries)
        first == size(r) - num_entries
    IN [n \in 1..num_entries |-> first + n - 1]

\* FlightRecorder::dump: the lines printed, oldest first
dump(r, max_num_entries) ==
    LET num_entries == Min(size(r), max_num_entries)
    IN [n \in 1..num_entries |->
           LET i == dump_indices(r, max_num_entries)[n]
               k == to_array_index(r, i)
           IN [j |-> num_entries - n,
               m_source |-> basename(r.m_array[k].m_source),
               m_line |-> r.m_array[k].m_line,
               m_function |-> r.m_array[k].m_function,
               message |-> r.m_buffer[k]]]

\* snprintf(buffer, buffer_sz, ...): at most buffer_sz - 1 characters
snprintf(buffer_sz, text) ==
    IF Len(text) <= buffer_sz - 1 THEN text ELSE SubSeq(text, 1, buffer_sz - 1)

\* a char* that points to no buffer
NULL == <<>>

\* flight_recorder_insert done although the recorder is disabled
flight_recorder_insert_always(r, source, line, function) ==
    LET ins == insert_c_api(r, source, line, function)
    IN [rec |-> ins.rec, is_enabled |-> TRUE,
        out_buffer |-> <<ins.buffer>>, out_buffer_sz |-> ins.buffer_sz]

\* flight_recorder_insert: .is_enabled is the value returned, .out_buffer is
\* *out_buffer: <<k>> points to the message buffer of slot k.
flight_recorder_insert(r, source, line, function) ==
    IF g_flight_recorder_enabled
    THEN LET ins == insert_c_api(r, source, line, function)
         IN [rec |-> ins.rec, is_enabled |-> TRUE,
             out_buffer |-> <<ins.buffer>>, out_buffer_sz |-> ins.buffer_sz]
    ELSE [rec |-> r, is_enabled |-> FALSE, out_buffer |-> NULL, out_buffer_sz |-> 0]

\* __FILE__ of gc-tracing.cpp, as the build passes it to the compiler
SourceFile == <<"src", "gc-tracing.cpp">>

\* The FR(...) macro of flight-recorder.h: flight_recorder_insert and, when it
\* returns true, snprintf of the message into the buffer it handed out.
FR(r, line, function, text) ==
    LET ins == flight_recorder_insert(r, SourceFile, line, function)
    IN IF ins.is_enabled
       THEN [ins.rec EXCEPT !.m_buffer[ins.out_buffer[1]] = snprintf(ins.out_buffer_sz, text)]
       ELSE ins.rec

\* mutant: nothing is dumped
flight_recorder_dump_none(r, n) == <<>>

\* flight_recorder_dump_n
flight_recorder_dump_n(r, n) == dump(r, n)

\* --------------------------------------------------------- Object (class)
\* Object::Object(jl_value_t*)
Object(object) ==
    [m_pointer |-> object, m_parent |-> nullptr, m_type_ref |-> "UNKNOWN",
     m_name |-> "", m_index |-> 0]

\* g_index.emplace(to, to): the map afterwards (an existing element is kept)
emplace(index, to) ==
    [p \in DOMAIN index \cup {to} |-> IF p \in DOMAIN index THEN index[p] ELSE Object(p)]

\* mutant: the callbacks go on although the element existed
emplace_second_always(index, to) == TRUE

\* `it.second' of g_index.emplace(to, to): whether the element was inserted
emplace_second(index, to) == to \notin DOMAIN index

\* mutant: the index is not emptied
clear_noop(index) == index

\* g_index.clear()
clear(index) == [p \in {} |-> Object(p)]

\* Object::set_root
set_root(node, name) ==
    [node EXCEPT !.m_type_ref = "ROOT", !.m_parent = nullptr, !.m_name = name]

\* The five overloads of Object::set_parent.  index is g_index with the new
\* node already emplaced.  Each gives: whether g_index.find(from) hit, the
\* node at the moment STOP_AND_DEBUG is reached on a miss (atTrap), and the
\* node when the method returns (after).
\* mutant: the parent is looked up but not linked
set_parent_module_nolink(index, node, module, name) ==
    [hit |-> module \in DOMAIN index,
     atTrap |-> [node EXCEPT !.m_type_ref = "MODULE_BINDING", !.m_name = name],
     after |-> [node EXCEPT !.m_type_ref = "MODULE_BINDING", !.m_name = name]]

set_parent_module(index, node, module, name) ==
    LET n1 == [node EXCEPT !.m_type_ref = "MODULE_BINDING", !.m_name = name]
        hit == module \in DOMAIN index
    IN [hit |-> hit, atTrap |-> n1,
        after |-> IF hit THEN [n1 EXCEPT !.m_parent = module] ELSE n1]

\* mutant: the parent is looked up but not linked
set_parent_array_nolink(index, node, array, pos) ==
    [hit |-> array \in DOMAIN index,
     atTrap |-> [node EXCEPT !.m_type_ref = "ARRAY"],
     after |-> [node EXCEPT !.m_type_ref = "ARRAY", !.m_index = pos]]

\* mutant: the parent is linked without being looked up
set_parent_task_blind(index, node, task) ==
    LET n1 == [node EXCEPT !.m_type_ref = "TASK"]
    IN [hit |-> TRUE, atTrap |-> n1, after |-> [n1 EXCEPT !.m_parent = task]]

set_parent_task(index, node, task) ==
    LET n1 == [node EXCEPT !.m_type_ref = "TASK"]
        hit == task \in DOMAIN index
    IN [hit |-> hit, atTrap |-> n1,
        after |-> IF hit THEN [n1 EXCEPT !.m_parent = task] ELSE n1]

set_parent_frame(index, node, frame) ==
    LET n1 == [node EXCEPT !.m_type_ref = "FRAME"]
        hit == frame \in DOMAIN index
    IN [hit |-> hit, atTrap |-> n1,
        after |-> IF hit THEN [n1 EXCEPT !.m_parent = frame] ELSE n1]

set_parent_array(index, node, array, pos) ==
    LET n1 == [node EXCEPT !.m_type_ref = "ARRAY"]
        hit == array \in DOMAIN index
        n2 == IF hit THEN [n1 EXCEPT !.m_parent = array] ELSE n1
    IN [hit |-> hit, atTrap |-> n1, after |-> [n2 EXCEPT !.m_index = pos]]

set_parent_object(index, node, object, field_index, field_name) ==
    LET n1 == [node EXCEPT !.m_type_ref = "FIELD"]
        hit == object \in DOMAIN index
        n2 == IF hit THEN [n1 EXCEPT !.m_parent = object] ELSE n1
    IN [hit |-> hit, atTrap |-> n1,
        after |-> [n2 EXCEPT !.m_index = field_index, !.m_name = field_name]]

\* One line printed by an iteration of the loop of dump_ancestor_chain.
chain_line(current, parent) ==
    [head |-> IF current.m_type_ref = "ROOT" THEN "<root>"
              ELSE IF parent = nullptr THEN "<unknown>"
              ELSE parent,
     m_name |-> current.m_name,
     position |-> IF current.m_type_ref \in {"ARRAY", "FIELD"}
                  THEN <<current.m_index>> ELSE <<>>,
     m_pointer |-> current.m_pointer]

\* the value of `parent' at the end of an iteration
next_parent(current) ==
    IF current.m_type_ref = "ROOT" THEN nullptr ELSE current.m_parent

\* Stands for output that never ends.
Endless == [head |-> "...", m_name |-> "", position |-> <<>>, m_pointer |-> nullptr]

\* The do-while loop of Object::dump_ancestor_chain: the lines printed in at
\* most `fuel' iterations, followed by Endless if the loop has not ended.
RECURSIVE ancestor_chain(_, _, _)
ancestor_chain(index, current, fuel) ==
    IF fuel = 0 THEN <<Endless>>
    ELSE LET line == chain_line(index[current], index[current].m_parent)
             parent == next_parent(index[current])
         IN IF parent = nullptr THEN <<line>>
            ELSE <<line>> \o ancestor_chain(index, parent, fuel - 1)

\* Object::dump_ancestor_chain.  A walk that needs more iterations than there
\* are nodes visits a node twice, and so never ends.
dump_ancestor_chain(index, object) ==
    ancestor_chain(index, object, Cardinality(DOMAIN index))

\* whether dump_ancestor_chain returned
returned(chain) == chain[Len(chain)] # Endless

\* mutant: a found target empties the watch set
target_found_clear(candidate, index, targets, out) ==
    IF candidate \notin targets
    THEN [hung |-> FALSE, targets |-> targets, found |-> out]
    ELSE [hung |-> FALSE, targets |-> {},
          found |-> Append(out, [m_pointer |-> candidate,
                                 chain |-> dump_ancestor_chain(index, candidate)])]

\* mutant: a found target stays in the watch set
target_found_keep(candidate, index, targets, out) ==
    IF candidate \notin targets
    THEN [hung |-> FALSE, targets |-> targets, found |-> out]
    ELSE [hung |-> FALSE, targets |-> targets,
          found |-> Append(out, [m_pointer |-> candidate,
                                 chain |-> dump_ancestor_chain(index, candidate)])]

\* target_found: the line "[target_found] ..." and the chain are printed; the
\* target is erased if dump_ancestor_chain returns (.hung otherwise).
target_found(candidate, index, targets, out) ==
    IF candidate \notin targets
    THEN [hung |-> FALSE, targets |-> targets, found |-> out]
    ELSE LET chain == dump_ancestor_chain(index, candidate)
             printed == Append(out, [m_pointer |-> candidate, chain |-> chain])
         IN IF returned(chain)
            THEN [hung |-> FALSE, targets |-> targets \ {candidate}, found |-> printed]
            ELSE [hung |-> TRUE, targets |-> targets, found |-> printed]

\* ------------------------------------------------------------------- state
EmptyIndex == clear(<<>>)

Init ==
    /\ g_targets = {}
    /\ g_recording = FALSE
    /\ g_index = EmptyIndex
    /\ m_capacity = FlightRecorder(FRCapacity).m_capacity
    /\ m_end = FlightRecorder(FRCapacity).m_end
    /\ m_is_full = FlightRecorder(FRCapacity).m_is_full
    /\ m_array = FlightRecorder(FRCapacity).m_array
    /\ m_buffer = FlightRecorder(FRCapacity).m_buffer
    /\ g_flight_recorder_enabled = FALSE
    /\ gc_num_pause = 0
    /\ pc = "idle"
    /\ proc = "running"
    /\ found = <<>>
    /\ trace_out = [msg |-> "", undetected |-> {}]
    /\ fr_out = <<>>
    /\ reports = <<>>
    /\ nreports = 0
    /\ watched = {}
    /\ late = {}
    /\ ret = [is_enabled |-> FALSE, out_buffer |-> NULL, out_buffer_sz |-> 0]
    /\ inserted = <<>>
    /\ ncalls = 0
    /\ noutside = 0

\* The host collector may call back (a collection can run at any time); the
\* number of callbacks made while a recording is on is bounded, and so is the
\* number of those made while none is on.
HostCallback ==
    /\ proc = "running"
    /\ g_recording => nreports < MaxReports
    /\ ~g_recording => noutside < MaxOutside

\* Bound of the run: once the callbacks are used up, no target is added and
\* no session starts (a session that is on comes to its end).
RunBound == nreports < MaxReports

\* What a callback adds to `reports'.
LogEntry(op, from, to, name, pos) ==
    [op |-> op, from |-> from, to |-> to, name |-> name, pos |-> pos,
     known |-> from \in DOMAIN g_index,
     created |-> to \notin DOMAIN g_index /\ to # nullptr]

\* The state a callback leaves.
Commit(r, index, targets, out, dumped, status, entry) ==
    /\ m_end' = r.m_end
    /\ m_is_full' = r.m_is_full
    /\ m_array' = r.m_array
    /\ m_buffer' = r.m_buffer
    /\ g_index' = index
    /\ g_targets' = targets
    /\ found' = out
    /\ fr_out' = dumped
    /\ proc' = status
    /\ reports' = IF g_recording THEN Append(reports, entry) ELSE reports
    /\ nreports' = IF g_recording THEN nreports + 1 ELSE nreports
    /\ noutside' = IF g_recording THEN noutside ELSE noutside + 1
    /\ UNCHANGED <<g_recording, m_capacity, g_flight_recorder_enabled,
                   gc_num_pause, pc, trace_out, watched, late, api>>

\* a return that drops the index and the watch set
Return_clearing(r, entry) == Commit(r, EmptyIndex, {}, found, fr_out, "running", entry)

\* Early return of a callback: only the FR(...) calls made so far have acted.
Return(r, entry) == Commit(r, g_index, g_targets, found, fr_out, "running", entry)

\* break_into_debugger raises SIGTRAP: the process is resumed by an attached
\* debugger, and `resumed' is what it does next, or it is killed by the
\* signal's default action in the state `killed'.
break_into_debugger(killed, resumed) == killed \/ resumed

\* The rest of a callback after set_parent was called on the new node `to':
\* STOP_AND_DEBUG on a miss, then target_found(to) if the callback calls it.
AfterSetParent(r, index1, to, sp, calls_target_found, entry) ==
    LET dumped == IF sp.hit THEN fr_out ELSE flight_recorder_dump_n(r, StopDumpN)
        index2 == [index1 EXCEPT ![to] = sp.after]
        tf == IF calls_target_found
              THEN target_found(to, index2, g_targets, found)
              ELSE [hung |-> FALSE, targets |-> g_targets, found |-> found]
        returns == Commit(r, index2, tf.targets, tf.found, dumped,
                          IF tf.hung THEN "hung" ELSE "running", entry)
    IN IF sp.hit THEN returns
       ELSE break_into_debugger(
                Commit(r, [index1 EXCEPT ![to] = sp.atTrap], g_targets, found,
                       dumped, "killed", entry),
                returns)

\* --------------------------------------------------- callbacks from the GC
gc_record_root(root, name) ==
    /\ HostCallback
    /\ LET entry == LogEntry("root", nullptr, root, name, 0)
           r1 == FR(Recorder, 194, "gc_record_root", <<"root: %p, name: %s", root, name>>)
       IN IF ~g_recording \/ root = nullptr THEN Return(r1, entry)
          ELSE IF ~emplace_second(g_index, root) THEN Return(r1, entry)
          ELSE LET r2 == FR(r1, 199, "gc_record_root", <<"root inserted">>)
                   index1 == emplace(g_index, root)
                   index2 == [index1 EXCEPT ![root] = set_root(index1[root], name)]
                   tf == target_found(root, index2, g_targets, found)
               IN Commit(r2, index2, tf.targets, tf.found, fr_out,
                         IF tf.hung THEN "hung" ELSE "running", entry)

gc_record_frame_to_object_edge(from, to) ==
    /\ HostCallback
    /\ LET entry == LogEntry("frame_to_object", from, to, "", 0)
           r1 == FR(Recorder, 206, "gc_record_frame_to_object_edge",
                    <<"from: %p, to: %p", from, to>>)
       IN IF ~g_recording THEN Return(r1, entry)
          ELSE IF ~emplace_second(g_index, to) THEN Return(r1, entry)
          ELSE LET r2 == FR(r1, 211, "gc_record_frame_to_object_edge", <<"item inserted">>)
                   index1 == emplace(g_index, to)
                   sp == set_parent_frame(index1, index1[to], from)
               IN AfterSetParent(r2, index1, to, sp, TRUE, entry)

gc_record_task_to_frame_edge(from, to) ==
    /\ HostCallback
    /\ LET entry == LogEntry("task_to_frame", from, to, "", 0)
           r1 == FR(Recorder, 218, "gc_record_task_to_frame_edge",
                    <<"task: %p, frame: %p", from, to>>)
       IN IF ~g_recording THEN Return(r1, entry)
          ELSE IF ~emplace_second(g_index, to) THEN Return(r1, entry)
          ELSE LET r2 == FR(r1, 222, "gc_record_task_to_frame_edge", <<"item inserted">>)
                   index1 == emplace(g_index, to)
                   sp == set_parent_task(index1, index1[to], from)
               IN AfterSetParent(r2, index1, to, sp, FALSE, entry)

gc_record_frame_to_frame_edge(from, to) ==
    /\ HostCallback
    /\ LET entry == LogEntry("frame_to_frame", from, to, "", 0)
           r1 == FR(Recorder, 227, "gc_record_frame_to_frame_edge",
                    <<"from: %p, to: %p", from, to>>)
       IN IF ~g_recording THEN Return(r1, entry)
          ELSE IF ~emplace_second(g_index, to) THEN Return(r1, entry)
          ELSE LET r2 == FR(r1, 231, "gc_record_frame_to_frame_edge", <<"item inserted">>)
                   index1 == emplace(g_index, to)
                   sp == set_parent_frame(index1, index1[to], from)
               IN AfterSetParent(r2, index1, to, sp, FALSE, entry)

gc_record_array_edge(from, to, pos) ==
    /\ HostCallback
    /\ LET entry == LogEntry("array", from, to, "", pos)
           r1 == FR(Recorder, 236, "gc_record_array_edge",
                    <<"from: %p, to: %p, index: %d", from, to, pos>>)
       IN IF ~g_recording THEN Return(r1, entry)
          ELSE IF ~emplace_second(g_index, to) THEN Return(r1, entry)
          ELSE LET r2 == FR(r1, 240, "gc_record_array_edge", <<"item inserted">>)
                   index1 == emplace(g_index, to)
                   sp == set_parent_array(index1, index1[to], from, pos)
               IN AfterSetParent(r2, index1, to, sp, TRUE, entry)

gc_record_module_edge(from, to, name) ==
    /\ HostCallback
    /\ LET entry == LogEntry("module", from, to, name, 0)
           r1 == FR(Recorder, 247, "gc_record_module_edge",
                    <<"module: %p, value: %p, name: %s", from, to, name>>)
       IN IF ~g_recording THEN Return(r1, entry)
          ELSE IF ~emplace_second(g_index, to) THEN Return(r1, entry)
          ELSE LET r2 == FR(r1, 251, "gc_record_module_edge", <<"item inserted">>)
                   index1 == emplace(g_index, to)
                   sp == set_parent_module(index1, index1[to], from, name)
               IN AfterSetParent(r2, index1, to, sp, TRUE, entry)

\* The field lookup (lines 273-342) reads the host's type layout: its results
\* field_index0, field_name and error are inputs (error is drawn where the
\* code reads it).  slot is the address of the
\* field, written here as the field's index.
gc_record_object_edge(from, to, field_index0) ==
    /\ HostCallback
    /\ LET field_name == FieldName(field_index0)
           entry == LogEntry("object", from, to, field_name, field_index0)
           r1 == FR(Recorder, 266, "gc_record_object_edge",
                    <<"from: %p, to: %p, slot: %p", from, to, field_index0>>)
       IN IF ~g_recording THEN Return(r1, entry)
          ELSE IF ~emplace_second(g_index, to) THEN Return(r1, entry)
          ELSE LET r2 == FR(r1, 270, "gc_record_object_edge", <<"item inserted">>)
                   index1 == emplace(g_index, to)
                   sp == set_parent_object(index1, index1[to], from, field_index0, field_name)
                   rest == AfterSetParent(r2, index1, to, sp, TRUE, entry)
               IN \E error \in BOOLEAN :
                     IF error
                     THEN break_into_debugger(
                              Commit(r2, index1, g_targets, found, fr_out, "killed", entry),
                              rest)
                     ELSE rest

gc_record_internal_edge(from, to) ==
    /\ HostCallback
    /\ Return(FR(Recorder, 430, "gc_record_internal_edge", <<"from: %p, to: %p", from, to>>),
              LogEntry("internal", from, nullptr, "", 0))

gc_record_hidden_edge(from, bytes) ==
    /\ HostCallback
    /\ Return(FR(Recorder, 437, "gc_record_hidden_edge", <<"from: %p, bytes: %d", from, bytes>>),
              LogEntry("hidden", from, nullptr, "", bytes))

\* ------------------------------------------------------ session control
jl_gc_addptr(pointer) ==
    /\ proc = "running"
    /\ RunBound
    /\ g_targets' = g_targets \cup {pointer}
    /\ late' = IF g_recording THEN late \cup {pointer} ELSE late
    /\ UNCHANGED <<watched, g_recording, g_index, m_capacity, m_end, m_is_full, m_array, m_buffer,
                   g_flight_recorder_enabled, gc_num_pause, pc, proc, found,
                   trace_out, fr_out, reports, nreports, api, noutside>>

\* The head of the loop `while (gc_num.pause < 2)' and what follows it up to
\* the next call of jl_gc_collect.
WarmupLoop(pause) ==
    IF pause < WarmupPauses
    THEN /\ pc' = "warmup"
         /\ watched' = {}
         /\ late' = {}
         /\ UNCHANGED <<g_recording, g_flight_recorder_enabled>>
    ELSE /\ g_recording' = TRUE
         /\ g_flight_recorder_enabled' = TRUE
         /\ pc' = "full"
         /\ watched' = g_targets
         /\ late' = {}

\* mutant: jl_gc_trace without the check for an empty watch set
jl_gc_trace_unchecked ==
    /\ proc = "running"
    /\ pc = "idle"
    /\ RunBound
    /\ trace_out' = [msg |-> "Checking for the following targets", undetected |-> {}]
    /\ g_index' = clear(g_index)
    /\ WarmupLoop(gc_num_pause)
    /\ found' = <<>>
    /\ reports' = <<>>
    /\ UNCHANGED <<g_targets, m_capacity, m_end, m_is_full, m_array, m_buffer,
                   gc_num_pause, proc, fr_out, nreports, api, noutside>>

\* jl_gc_trace, from its call to the first call of jl_gc_collect
jl_gc_trace ==
    /\ proc = "running"
    /\ pc = "idle"
    /\ RunBound
    /\ UNCHANGED <<api, noutside>>
    /\ IF g_targets = {}
       THEN /\ trace_out' = [msg |-> "There are no targets to trace...", undetected |-> {}]
            /\ UNCHANGED <<g_targets, g_recording, g_index, m_capacity, m_end, m_is_full,
                           m_array, m_buffer, g_flight_recorder_enabled, gc_num_pause,
                           pc, proc, found, fr_out, reports, nreports, watched, late>>
       ELSE /\ trace_out' = [msg |-> "Checking for the following targets", undetected |-> {}]
            /\ g_index' = clear(g_index)
            /\ WarmupLoop(gc_num_pause)
            /\ found' = <<>>
            /\ reports' = <<>>
            /\ UNCHANGED <<g_targets, m_capacity, m_end, m_is_full, m_array, m_buffer,
                           gc_num_pause, proc, fr_out, nreports>>

\* jl_gc_collect(JL_GC_AUTO) returns into the warm-up loop
jl_gc_trace_warmup ==
    /\ proc = "running"
    /\ pc = "warmup"
    /\ gc_num_pause' = Min(gc_num_pause + 1, WarmupPauses)
    /\ WarmupLoop(gc_num_pause')
    /\ UNCHANGED <<g_targets, g_index, m_capacity, m_end, m_is_full, m_array, m_buffer,
                   proc, found, trace_out, fr_out, reports, nreports, api, noutside>>

\* jl_gc_collect(JL_GC_FULL) returns: the rest of jl_gc_trace
jl_gc_trace_finish ==
    /\ proc = "running"
    /\ pc = "full"
    /\ gc_num_pause' = Min(gc_num_pause + 1, WarmupPauses)
    /\ trace_out' = [msg |-> IF g_targets # {}
                             THEN "the following pointers were not detected"
                             ELSE "all targets were detected",
                     undetected |-> g_targets]
    /\ g_targets' = {}
    /\ g_index' = clear(g_index)
    /\ g_recording' = FALSE
    /\ g_flight_recorder_enabled' = FALSE
    /\ pc' = "idle"
    /\ UNCHANGED <<m_capacity, m_end, m_is_full, m_array, m_buffer, proc, found,
                   fr_out, reports, nreports, watched, late, api, noutside>>

Next ==
    \/ \E p \in Objects : jl_gc_addptr(p)
    \/ jl_gc_trace
    \/ jl_gc_trace_warmup
    \/ jl_gc_trace_finish
    \/ \E root \in Pointers, name \in Names : gc_record_root(root, name)
    \/ \E from \in Objects, to \in Objects, name \in Names :
          gc_record_module_edge(from, to, name)
    \/ \E from \in Objects, to \in Objects :
          gc_record_task_to_frame_edge(from, to)
    \/ \E from \in Objects, to \in Objects :
          gc_record_frame_to_frame_edge(from, to)
    \/ \E from \in Objects, to \in Objects :
          gc_record_frame_to_object_edge(from, to)
    \/ \E from \in Objects, to \in Objects, pos \in Positions :
          gc_record_array_edge(from, to, pos)
    \/ \E from \in Objects, to \in Objects, field_index0 \in Positions :
          gc_record_object_edge(from, to, field_index0)
    \/ \E from \in Objects, to \in Objects : gc_record_internal_edge(from, to)
    \/ \E from \in Objects, bytes \in Positions : gc_record_hidden_edge(from, bytes)

Spec == Init /\ [][Next]_vars

\* ------------------------------------------- the recorder's C API, driven
\* directly: a recorder of any capacity, a client that enables and disables
\* it, inserts entries and dumps it.
\* __FILE__, __LINE__ and __FUNCTION__ of the client's calls
CallSites == {[m_source |-> <<"src", "a.c">>, m_line |-> 10, m_function |-> "f"],
              [m_source |-> <<"b.c">>, m_line |-> 20, m_function |-> "g"]}
\* the messages a client stores in the buffer it is handed
Messages == {<<"m">>}

FRInit ==
    /\ \E c \in 1..MaxCapacity :
          /\ m_capacity = FlightRecorder(c).m_capacity
          /\ m_end = FlightRecorder(c).m_end
          /\ m_is_full = FlightRecorder(c).m_is_full
          /\ m_array = FlightRecorder(c).m_array
          /\ m_buffer = FlightRecorder(c).m_buffer
    /\ g_flight_recorder_enabled = FALSE
    /\ fr_out = <<>>
    /\ ret = [is_enabled |-> FALSE, out_buffer |-> NULL, out_buffer_sz |-> 0]
    /\ inserted = <<>>
    /\ ncalls = 0
    /\ noutside = 0
    /\ g_targets = {} /\ g_recording = FALSE /\ g_index = EmptyIndex
    /\ gc_num_pause = 0 /\ pc = "idle" /\ proc = "running"
    /\ found = <<>> /\ trace_out = [msg |-> "", undetected |-> {}]
    /\ reports = <<>> /\ nreports = 0 /\ watched = {} /\ late = {}

\* what the recorder's C API leaves alone
tracer == <<g_targets, g_recording, g_index, gc_num_pause, pc, proc, found,
            trace_out, reports, nreports, watched, late, noutside>>

flight_recorder_enable(value) ==
    /\ g_flight_recorder_enabled' = value
    /\ UNCHANGED <<m_capacity, m_end, m_is_full, m_array, m_buffer, fr_out, api, tracer>>

\* A client's call of flight_recorder_insert; if it returns true and the
\* client stores a message at all (`store'), `message' is written to the
\* buffer it was handed.
call_flight_recorder_insert(site, store, message) ==
    LET ins == flight_recorder_insert(Recorder, site.m_source, site.m_line, site.m_function)
        stored == IF ins.is_enabled /\ store
                  THEN [ins.rec.m_buffer EXCEPT ![ins.out_buffer[1]] =
                           snprintf(ins.out_buffer_sz, message)]
                  ELSE ins.rec.m_buffer
    IN /\ ncalls < MaxCalls
       /\ ncalls' = ncalls + 1
       /\ ret' = [is_enabled |-> ins.is_enabled, out_buffer |-> ins.out_buffer,
                  out_buffer_sz |-> ins.out_buffer_sz]
       /\ m_end' = ins.rec.m_end
       /\ m_is_full' = ins.rec.m_is_full
       /\ m_array' = ins.rec.m_array
       /\ m_buffer' = stored
       /\ inserted' = IF ins.is_enabled
                      THEN Append(inserted, [site |-> site, store |-> store,
                                             message |-> message])
                      ELSE inserted
       /\ UNCHANGED <<m_capacity, g_flight_recorder_enabled, fr_out, tracer>>

flight_recorder_dump ==
    /\ fr_out' = dump(Recorder, MaxNumEntries)
    /\ UNCHANGED <<m_capacity, m_end, m_is_full, m_array, m_buffer,
                   g_flight_recorder_enabled, api, tracer>>

call_flight_recorder_dump_n(n) ==
    /\ fr_out' = flight_recorder_dump_n(Recorder, n)
    /\ UNCHANGED <<m_capacity, m_end, m_is_full, m_array, m_buffer,
                   g_flight_recorder_enabled, api, tracer>>

FRNext ==
    \/ \E value \in BOOLEAN : flight_recorder_enable(value)
    \/ \E site \in CallSites, store \in BOOLEAN, message \in Messages :
          call_flight_recorder_insert(site, store, message)
    \/ flight_recorder_dump
    \/ \E n \in 0..MaxDump : call_flight_recorder_dump_n(n)

FRSpec == FRInit /\ [][FRNext]_vars

\* ============================================================== properties
EdgeOps == {"root", "module", "task_to_frame", "frame_to_frame",
            "frame_to_object", "array", "object"}
NonRootOps == EdgeOps \ {"root"}

\* ReferenceType a report of kind op gives to the node it creates
KindOf(op) ==
    CASE op = "root" -> "ROOT"
      [] op = "module" -> "MODULE_BINDING"
      [] op = "task_to_frame" -> "TASK"
      [] op = "frame_to_frame" -> "FRAME"
      [] op = "frame_to_object" -> "FRAME"
      [] op = "array" -> "ARRAY"
      [] op = "object" -> "FIELD"

\* The step is a callback made during a recording, and Call is that callback.
Calls == Len(reports') = Len(reports) + 1
Call == reports'[Len(reports')]

\* C1: an edge report whose `to' already has a node leaves every node (its
\* parent, kind, label and position) as it was and adds no node, whatever
\* the kind, `from' or label of the report.
C1_FirstDiscoveryWins ==
    [][Calls /\ Call.op \in EdgeOps /\ Call.to \in DOMAIN g_index
         => g_index' = g_index]_vars

\* C1 witness: a second report of another kind and another `from' was made
\* for a `to' that the first report of the session had created.
C1_Witness ==
    /\ g_recording /\ proc = "running" /\ Len(reports) = 2
    /\ reports[1].created /\ reports[1].op \in EdgeOps /\ reports[2].op \in EdgeOps
    /\ reports[2].to = reports[1].to
    /\ reports[2].from # reports[1].from
    /\ reports[2].op # reports[1].op
    /\ reports[2].name # reports[1].name
    /\ g_index[reports[1].to].m_type_ref = KindOf(reports[1].op)

\* [target_found] was printed for t in this step with the chain of its node,
\* dump_ancestor_chain returned and t was erased from g_targets.
TargetReported(t) ==
    /\ Len(found') = Len(found) + 1
    /\ found'[Len(found')].m_pointer = t
    /\ found'[Len(found')].chain = dump_ancestor_chain(g_index', t)
    /\ returned(found'[Len(found')].chain)
    /\ g_targets' = g_targets \ {t}

\* C2 as claimed, for the calls that return: every edge report, of any kind,
\* that creates a node whose identity is in the watch set reports the target
\* found, reconstructs its chain and removes it from the watch set in that
\* same call.
C2_Original ==
    [][Calls /\ Call.op \in EdgeOps /\ Call.created /\ Call.to \in g_targets
             /\ proc' = "running"
         => TargetReported(Call.to)]_vars

\* C2 amended: a root, module-binding, frame-to-object, array or field report
\* that creates a node with a watched identity and returns reports the target
\* found, reconstructs its chain and removes it from the watch set in that
\* call; task-to-frame and frame-to-frame reports report no target and leave
\* the watch set alone.
C2_Amended ==
    [][Calls /\ Call.op \in EdgeOps /\ Call.created /\ Call.to \in g_targets
         => IF Call.op \in {"task_to_frame", "frame_to_frame"}
            THEN found' = found /\ g_targets' = g_targets
            ELSE proc' = "running" => TargetReported(Call.to)]_vars

\* C2 witness: an array report created the node of a watched identity whose
\* `from' was indexed, and the target was reported and unwatched.
C2_Witness ==
    /\ g_recording /\ proc = "running" /\ Len(reports) = 2 /\ Len(found) = 1
    /\ reports[2].op = "array" /\ reports[2].created /\ reports[2].known
    /\ found[1].m_pointer = reports[2].to
    /\ reports[2].to \in watched \ g_targets

\* The discovery-order precondition: every non-root edge report of the
\* session had its `from' in the index when it was made.
InOrder == \A i \in 1..Len(reports) : reports[i].op \in NonRootOps => reports[i].known

EndsAtRoot(chain) ==
    /\ returned(chain)
    /\ chain[Len(chain)].head = "<root>"
    /\ \A k \in 1..Len(chain) : chain[k].head # "<unknown>"

\* C3: under the discovery-order precondition the chain of every node of the
\* index is finite and ends at a Root node, and the chain printed for every
\* found target reaches a root with no <unknown> step.
C3_ChainsReachRoot ==
    InOrder =>
        /\ \A i \in 1..Len(found) : EndsAtRoot(found[i].chain)
        /\ proc = "running" =>
              \A p \in DOMAIN g_index : EndsAtRoot(dump_ancestor_chain(g_index, p))

\* C3 witness: an in-order session found a target below a root.
C3_Witness ==
    /\ InOrder /\ g_recording /\ Len(reports) = 2
    /\ reports[2].op \in NonRootOps /\ reports[2].created
    /\ Len(found) >= 1 /\ Len(found[Len(found)].chain) = 2

\* C4 as claimed: in every reachable state the walk from every node ends, and
\* dump_ancestor_chain always returns.
C4_Original ==
    /\ proc # "hung"
    /\ \A p \in DOMAIN g_index : returned(dump_ancestor_chain(g_index, p))

\* a node that is its own parent and not a root
SelfParent(index, n) == index[n].m_type_ref # "ROOT" /\ index[n].m_parent = n

\* the nodes a walk prints a line for
Visited(chain) == {chain[k].m_pointer : k \in 1..Len(chain)} \ {nullptr}

\* C4, the extent of the defect: the walk from a node ends at a Root or
\* parentless node unless it reaches a node that is its own parent; such a
\* node is made only by a non-root report with from = to that created it; the
\* process hangs only in target_found of a target whose walk reaches such a
\* node.
C4_EndlessOnlyThroughSelfParent ==
    /\ \A p \in DOMAIN g_index :
          LET chain == dump_ancestor_chain(g_index, p)
          IN returned(chain) <=> \A n \in Visited(chain) : ~SelfParent(g_index, n)
    /\ \A n \in DOMAIN g_index :
          SelfParent(g_index, n) =>
              \E i \in 1..Len(reports) :
                  /\ reports[i].op \in NonRootOps /\ reports[i].created
                  /\ reports[i].to = n /\ reports[i].from = n
    /\ proc = "hung" =>
          /\ found # <<>>
          /\ ~returned(found[Len(found)].chain)
          /\ \E n \in Visited(found[Len(found)].chain) : SelfParent(g_index, n)

\* C4 witness: a node made by a report with from = to, and a second node
\* whose walk reaches it and so never ends.
C4_Witness ==
    /\ proc = "running"
    /\ \E n \in DOMAIN g_index, p \in DOMAIN g_index :
          /\ p # n
          /\ SelfParent(g_index, n)
          /\ g_index[p].m_parent = n
          /\ ~returned(dump_ancestor_chain(g_index, p))

\* C5 as claimed, for a `from' other than `to': when a non-root report creates
\* a node and `from' is not in the index, the node is kept with parent none
\* and the edge's kind, the log is dumped and the session goes on (it is not
\* aborted).
C5_Original ==
    [][Calls /\ Call.op \in NonRootOps /\ Call.created /\ ~Call.known
             /\ Call.from # Call.to
         => /\ g_index'[Call.to].m_parent = nullptr
            /\ g_index'[Call.to].m_type_ref = KindOf(Call.op)
            /\ fr_out' = dump(Recorder', StopDumpN)
            /\ proc' = "running" /\ g_recording']_vars

\* C5 amended: when a non-root report creates a node for `to' and `from',
\* different from `to', is not in the index, the node has no parent, the log
\* is dumped as soon as the node has got its kind, and the debugger trap then
\* either kills the process or is resumed; if resumed, the node is kept with
\* the edge's kind, a chain through it shows <unknown> and the session goes on.
C5_Amended ==
    [][Calls /\ Call.op \in NonRootOps /\ Call.created /\ ~Call.known
             /\ Call.from # Call.to
         => /\ g_index'[Call.to].m_parent = nullptr
            /\ proc' \in {"running", "killed"}
            /\ g_index'[Call.to].m_type_ref \in {KindOf(Call.op), "UNKNOWN"}
            /\ g_index'[Call.to].m_type_ref = KindOf(Call.op)
                  => fr_out' = dump(Recorder', StopDumpN) /\ Len(fr_out') >= 2
            /\ proc' = "running"
                  => /\ g_index'[Call.to].m_type_ref = KindOf(Call.op)
                     /\ dump_ancestor_chain(g_index', Call.to)[1].head = "<unknown>"
                     /\ g_recording']_vars

\* C5 witness: after a resumed miss a later report created a child of the
\* parentless node.
C5_Witness ==
    /\ g_recording /\ proc = "running" /\ Len(reports) = 2
    /\ reports[1].op \in NonRootOps /\ reports[1].created /\ ~reports[1].known
    /\ reports[1].from # reports[1].to
    /\ reports[2].created /\ reports[2].from = reports[1].to
    /\ fr_out # <<>>
    /\ dump_ancestor_chain(g_index, reports[2].to)[2].head = "<unknown>"

\* C6: a node created by gc_record_root keeps kind Root, the root's name and
\* no parent for the rest of the session, whatever is reported later.
C6_RootPrecedence ==
    g_recording =>
        \A i \in 1..Len(reports) :
            reports[i].op = "root" /\ reports[i].created =>
                /\ reports[i].to \in DOMAIN g_index
                /\ g_index[reports[i].to] =
                      [m_pointer |-> reports[i].to, m_parent |-> nullptr,
                       m_type_ref |-> "ROOT", m_name |-> reports[i].name,
                       m_index |-> 0]

\* C6 witness: a non-root report with another label targeted a root.
C6_Witness ==
    /\ g_recording /\ proc = "running" /\ Len(reports) = 2
    /\ reports[1].op = "root" /\ reports[1].created
    /\ reports[2].op \in NonRootOps /\ reports[2].to = reports[1].to
    /\ reports[2].known /\ reports[2].name \notin {"", reports[1].name}

\* C7: within a session no identity is reported found twice.
C7_OneShot ==
    \A i \in 1..Len(found), j \in 1..Len(found) :
        found[i].m_pointer = found[j].m_pointer => i = j

\* C7 witness: a found target was watched again and reported again.
C7_Witness ==
    /\ g_recording /\ proc = "running" /\ Len(reports) = 2 /\ Len(found) = 1
    /\ reports[1].to = found[1].m_pointer
    /\ reports[2].to = found[1].m_pointer /\ reports[2].op \in EdgeOps
    /\ found[1].m_pointer \in g_targets

FinishMessages == {"the following pointers were not detected", "all targets were detected"}

\* jl_gc_trace has returned from a session and nothing was printed since
SessionOver == pc = "idle" /\ trace_out.msg \in FinishMessages

\* C8: a watched identity that no edge report of the session targeted is
\* listed as not detected when the session ends, and the session ends in Idle.
C8_NotFoundReported ==
    SessionOver =>
        /\ proc = "running" /\ ~g_recording
        /\ \A y \in watched \cup late :
              (\A i \in 1..Len(reports) : reports[i].op \in EdgeOps => reports[i].to # y)
                  => /\ y \in trace_out.undetected
                     /\ trace_out.msg = "the following pointers were not detected"

\* C8 witness: a session with reports, none for the watched Y, has ended.
C8_Witness ==
    /\ SessionOver /\ Len(reports) = 2 /\ Len(found) = 1
    /\ \E y \in watched :
          /\ \A i \in 1..Len(reports) : reports[i].to # y
          /\ y \in trace_out.undetected

\* the end-to-end scenario's two reports
ScenarioRoot == reports[1].op = "root" /\ reports[1].to = "A" /\ reports[1].name = "main"
ScenarioBinding ==
    /\ reports[2].op = "module" /\ reports[2].from = "A" /\ reports[2].to = "X"
    /\ reports[2].name = "field1"

\* C9: with watch set {X} and the reports root(A, main), binding(A, X,
\* field1): X is not found before the binding is reported; with the binding
\* it is found with the chain  A -> field1 -> X,  <root> -> main -> A;  the
\* watch set is then empty and the session ends with all targets detected.
C9_EndToEnd ==
    /\ (watched = {"X"} /\ late = {} /\ Len(reports) = 1 /\ ScenarioRoot)
          => found = <<>> /\ (g_recording => g_targets = {"X"})
    /\ (watched = {"X"} /\ late = {} /\ Len(reports) = 2 /\ ScenarioRoot /\ ScenarioBinding)
          => /\ found = << [m_pointer |-> "X",
                            chain |-> << [head |-> "A", m_name |-> "field1",
                                          position |-> <<>>, m_pointer |-> "X"],
                                         [head |-> "<root>", m_name |-> "main",
                                          position |-> <<>>, m_pointer |-> "A"] >>] >>
             /\ g_recording => g_targets = {}
             /\ SessionOver =>
                   trace_out = [msg |-> "all targets were detected", undetected |-> {}]

\* C9 witness: the scenario ran to the end of its session.
C9_Witness ==
    /\ watched = {"X"} /\ late = {} /\ Len(reports) = 2
    /\ ScenarioRoot /\ ScenarioBinding
    /\ SessionOver

\* C10: when jl_gc_trace returns from a session the recording flag is false,
\* the event log disabled, the index empty and the watch set empty; the
\* index is empty when recording is switched on; in Idle nothing records.
C10_SessionPostState ==
    /\ [](pc = "idle" =>
             ~g_recording /\ ~g_flight_recorder_enabled /\ g_index = EmptyIndex)
    /\ [][/\ (pc = "full" /\ pc' = "idle")
                => /\ ~g_recording' /\ ~g_flight_recorder_enabled'
                   /\ g_index' = EmptyIndex /\ g_targets' = {}
          /\ (~g_recording /\ g_recording')
                => g_index' = EmptyIndex /\ g_targets # {}]_vars

\* C10 witness: a session that had indexed two nodes has returned.
C10_Witness ==
    /\ SessionOver /\ Len(reports) = 2
    /\ reports[1].created /\ reports[2].created
    /\ g_targets = {}

\* what a step adds to and takes from the watch set
Gained == g_targets' \ g_targets
Lost == g_targets \ g_targets'

\* a step within a recording
Recording == g_recording /\ g_recording'

\* C11 as claimed: while a session is recording the watch set never gains an
\* identity (jl_gc_addptr has no effect on it); it only loses identities, and
\* only on a call that found the identity lost.
C11_Original ==
    [][Recording =>
          /\ Gained = {}
          /\ Lost # {} => Calls /\ Lost = {Call.to} /\ TargetReported(Call.to)]_vars

\* C11 amended: while a session is recording, jl_gc_addptr inserts its
\* argument into the watch set as it does outside a session, and nothing else
\* adds to the set; the set loses an identity only in the callback that
\* created the identity's node and reported it found, one identity per call,
\* and no identity is lost twice in a session.
C11_Amended ==
    [][Recording =>
          /\ Gained # {} =>
                /\ ~Calls /\ found' = found /\ g_index' = g_index
                /\ Cardinality(Gained) = 1
                /\ late' = late \cup Gained
          /\ late' # late => late' \ late \subseteq g_targets'
          /\ Lost # {} =>
                /\ Calls /\ Call.created /\ Lost = {Call.to}
                /\ TargetReported(Call.to)
                /\ \A i \in 1..Len(found) : found[i].m_pointer # Call.to]_vars

\* C11 witness: in a recording one watched identity was found and lost, and
\* jl_gc_addptr then added an identity that was not watched when the
\* recording began.
C11_Witness ==
    /\ g_recording /\ proc = "running"
    /\ Len(found) = 1 /\ found[1].m_pointer \in watched \ g_targets
    /\ late # {} /\ late \cap watched = {} /\ late \subseteq g_targets

\* ------------------------------------------------ the recorder (FRSpec)
\* the number of insertions made while the recorder was enabled
N == Len(inserted)

\* C12: after N enabled insertions into a freshly created buffer of capacity
\* C > 0, size() = min(N, C); size never exceeds C and never decreases.
C12_SizeIsMin ==
    /\ [](/\ capacity(Recorder) > 0
          /\ size(Recorder) = Min(N, capacity(Recorder))
          /\ size(Recorder) <= capacity(Recorder))
    /\ [][size(Recorder') >= size(Recorder)]_vars

\* C12 witness: four insertions were made into a buffer of capacity 2, the
\* last of them after a call that was refused because the recorder was off.
C12_Witness ==
    /\ capacity(Recorder) = 2 /\ N = 4 /\ ncalls = 5 /\ size(Recorder) = 2
    /\ ret.is_enabled

\* file, line and function of the lines of a dump
Shown(lines) ==
    [i \in 1..Len(lines) |->
        [m_source |-> lines[i].m_source, m_line |-> lines[i].m_line,
         m_function |-> lines[i].m_function]]

\* file (as dump prints it), line and function of the last n insertions, in
\* the order in which they were made
LastInserted(n) ==
    [i \in 1..n |->
        [m_source |-> basename(inserted[N - n + i].site.m_source),
         m_line |-> inserted[N - n + i].site.m_line,
         m_function |-> inserted[N - n + i].site.m_function]]

\* a step that is a call of flight_recorder_insert
InsertCalled == ncalls' = ncalls + 1

\* C13: an insertion into an enabled recorder never fails, and after N >= C
\* insertions into a buffer of capacity C an unbounded dump lists exactly the
\* last C insertions (file, line, function) in insertion order, oldest first.
C13_OverwriteOldest ==
    /\ [](N >= capacity(Recorder) =>
             Shown(dump(Recorder, MaxNumEntries)) = LastInserted(capacity(Recorder)))
    /\ [][InsertCalled /\ g_flight_recorder_enabled =>
             /\ ret'.is_enabled /\ ret'.out_buffer # NULL
             /\ Len(inserted') = N + 1]_vars

\* C13 witness: capacity 3, five insertions, and flight_recorder_dump has
\* printed three lines: the 3rd, 4th and 5th insertion.
C13_Witness ==
    /\ capacity(Recorder) = 3 /\ N = 5
    /\ inserted[3].site # inserted[4].site /\ inserted[2].site # inserted[5].site
    /\ Len(fr_out) = 3
    /\ fr_out = dump(Recorder, MaxNumEntries)
    /\ Shown(fr_out) = LastInserted(3)

\* the arguments dump is checked for
DumpArgs == 0..(MaxCapacity + 1) \cup {MaxNumEntries}

\* C14: dump(maxEntries) prints exactly min(size(), maxEntries) entries, the
\* most recently inserted ones, ordered oldest to newest (and numbered down to
\* 0 for the newest); dump(0) and the dump of an empty buffer print no entry.
C14_DumpMostRecent ==
    \A n \in DumpArgs :
        LET lines == dump(Recorder, n)
        IN /\ Len(lines) = Min(size(Recorder), n)
           /\ Shown(lines) = LastInserted(Min(size(Recorder), n))
           /\ \A i \in 1..Len(lines) : lines[i].j = Len(lines) - i
           /\ (n = 0 \/ N = 0) => lines = <<>>

\* C14 witness: flight_recorder_dump_n(2) has printed the 3rd and 4th of four
\* insertions into a buffer of capacity 3.
C14_Witness ==
    /\ capacity(Recorder) = 3 /\ N = 4
    /\ inserted[3].site # inserted[4].site /\ inserted[2].site # inserted[4].site
    /\ Len(fr_out) = 2
    /\ fr_out = flight_recorder_dump_n(Recorder, 2)
    /\ Shown(fr_out) = LastInserted(2)

\* the Entry a call site hands to flight_recorder_insert
EntryOf(site) ==
    [m_source |-> site.m_source, m_line |-> site.m_line, m_function |-> site.m_function]

\* C15: while the enable flag is false flight_recorder_insert returns false
\* with a null buffer and size 0 and leaves the ring buffer (cursor, full
\* flag, every entry and message slot) unchanged; while the flag is true it
\* returns true with the message buffer of the slot it has just written.
C15_DisabledInsertNoOp ==
    [][InsertCalled =>
          IF g_flight_recorder_enabled
          THEN /\ ret'.is_enabled
               /\ ret'.out_buffer = <<m_end>>
               /\ ret'.out_buffer_sz = MessageSz
               /\ m_array'[m_end] = EntryOf(inserted'[Len(inserted')].site)
          ELSE /\ ret' = [is_enabled |-> FALSE, out_buffer |-> NULL, out_buffer_sz |-> 0]
               /\ Recorder' = Recorder
               /\ inserted' = inserted]_vars

\* C15 witness: a call was refused by a recorder that held two entries and
\* had been disabled after them.
C15_Witness ==
    /\ ~g_flight_recorder_enabled /\ ~ret.is_enabled /\ ret.out_buffer = NULL
    /\ N = 2 /\ ncalls = 3 /\ size(Recorder) = 2
    /\ m_array[1] = EntryOf(inserted[2].site)

\* the message the k-th insertion's caller stored: nothing, if it stored none
StoredBy(k) == IF inserted[k].store THEN inserted[k].message ELSE EmptyMessage

\* the insertion shown by the i-th of `lines' lines of a dump
InsertionOf(lines, i) == N - Len(lines) + i

\* C16 as claimed: an insert that reuses a slot also overwrites the message
\* of the slot's previous occupant, so every line of a dump shows an entry
\* with the message stored for that entry, and with no message if its caller
\* stored none.
C16_Original ==
    LET lines == dump(Recorder, MaxNumEntries)
    IN \A i \in 1..Len(lines) : lines[i].message = StoredBy(InsertionOf(lines, i))

\* C16, the extent of the defect: a line shows a message other than its
\* entry's only for an entry whose caller stored none, in a slot that an
\* earlier insertion had used; insert_c_api itself never changes a message.
C16_StaleOnlyWithoutStore ==
    /\ [](LET lines == dump(Recorder, MaxNumEntries)
          IN \A i \in 1..Len(lines) :
                lines[i].message # StoredBy(InsertionOf(lines, i)) =>
                    /\ ~inserted[InsertionOf(lines, i)].store
                    /\ InsertionOf(lines, i) > capacity(Recorder)
                    /\ \E k \in 1..(InsertionOf(lines, i) - 1) :
                          inserted[k].store /\ lines[i].message = inserted[k].message)
    /\ [][InsertCalled /\ g_flight_recorder_enabled /\ ~inserted'[Len(inserted')].store
             => m_buffer' = m_buffer]_vars

\* C16 witness: in a buffer of capacity 1 the second insertion, whose caller
\* stored no message, reused the slot of the first, and flight_recorder_dump
\* printed the second entry with the first one's message.
C16_Witness ==
    /\ capacity(Recorder) = 1 /\ N = 2
    /\ inserted[1].store /\ ~inserted[2].store
    /\ inserted[1].site # inserted[2].site
    /\ Len(fr_out) = 1
    /\ fr_out[1].m_line = inserted[2].site.m_line
    /\ fr_out[1].m_function = inserted[2].site.m_function
    /\ fr_out[1].message = inserted[1].message

\* ------------------------------------------------------- the session (Spec)
\* a step of gc_record_internal_edge or gc_record_hidden_edge
OpaqueEdge ==
    \/ \E from \in Objects, to \in Objects : gc_record_internal_edge(from, to)
    \/ \E from \in Objects, bytes \in Positions : gc_record_hidden_edge(from, bytes)

\* the entry most recently put into the recorder r
Newest(r) == r.m_array[to_array_index(r, size(r) - 1)]

\* C17: gc_record_internal_edge and gc_record_hidden_edge, recording or not,
\* leave the reachability index and the watch set unchanged and report no
\* target; all they do is put one entry into the event log, and only while
\* the log is enabled.
C17_OpaqueEdgesNoGraphEffect ==
    [][OpaqueEdge =>
          /\ g_index' = g_index /\ g_targets' = g_targets /\ found' = found
          /\ proc' = proc /\ g_recording' = g_recording /\ fr_out' = fr_out
          /\ IF g_flight_recorder_enabled
             THEN /\ Newest(Recorder').m_function \in
                        {"gc_record_internal_edge", "gc_record_hidden_edge"}
                  /\ \A k \in DOMAIN m_array :
                        k # m_end => m_array'[k] = m_array[k] /\ m_buffer'[k] = m_buffer[k]
             ELSE Recorder' = Recorder]_vars

\* C17 witness: in a recording with a node in the index and a target still
\* watched, an internal edge from the node was reported.
C17_Witness ==
    /\ g_recording /\ Len(reports) = 2
    /\ reports[2].op = "internal"
    /\ reports[2].from \in DOMAIN g_index
    /\ g_targets \ DOMAIN g_index # {}
    /\ Newest(Recorder).m_function = "gc_record_internal_edge"

\* the steps at which a session starts to record and at which it ends
RecordingOn == ~g_recording /\ g_recording'
SessionEnds == pc = "full" /\ pc' = "idle"

\* C18 as claimed: the event ring buffer is cleared at session boundaries;
\* it holds no entry when recording is switched on and none after a session
\* has ended.
C18_Original ==
    [][(RecordingOn \/ SessionEnds) => size(Recorder') = 0]_vars

\* C18 amended: the ring buffer is never cleared.  It is enabled exactly while
\* a session records, so it changes only in a callback made during a
\* recording; jl_gc_trace leaves its entries as they are when it switches the
\* recording on and when the session ends, and its size never decreases, so
\* entries of earlier sessions stay in it.
C18_Amended ==
    /\ [](g_flight_recorder_enabled <=> g_recording)
    /\ [][/\ (RecordingOn \/ SessionEnds) => Recorder' = Recorder
          /\ ~(g_recording /\ Calls) => Recorder' = Recorder
          /\ size(Recorder') >= size(Recorder)]_vars

\* C18 witness: in a second session the dump made for a missing parent
\* printed, before the two entries of that callback, an entry that a root
\* report of the first session had logged.
C18_Witness ==
    /\ g_recording /\ proc = "running" /\ nreports = 2 /\ Len(reports) = 1
    /\ reports[1].op \in NonRootOps
    /\ Len(fr_out) = 3
    /\ fr_out[1].m_function = "gc_record_root"
    /\ fr_out[3].message = <<"item inserted">>

\* ------------------------------------------------ the recorder (FRSpec)
\* C19: for every logical index i in [0, size()), to_array_index(i) lies in
\* [0, capacity) and equals (write cursor + i) mod capacity if the buffer is
\* full, and i if it is not.
C19_IndexTranslation ==
    \A i \in 0..(size(Recorder) - 1) :
        /\ to_array_index(Recorder, i) \in 0..(capacity(Recorder) - 1)
        /\ to_array_index(Recorder, i) =
              IF m_is_full THEN (m_end + i) % capacity(Recorder) ELSE i

\* C19 witness: a full buffer of capacity 3 with the cursor at 2 was dumped;
\* logical index 0 is slot 2 and logical indices 1 and 2 wrap to slots 0, 1.
C19_Witness ==
    /\ capacity(Recorder) = 3 /\ m_is_full /\ m_end = 2
    /\ to_array_index(Recorder, 0) = 2
    /\ to_array_index(Recorder, 1) = 0
    /\ to_array_index(Recorder, 2) = 1
    /\ Len(fr_out) = 3 /\ fr_out = dump(Recorder, MaxNumEntries)

\* C20: the write cursor m_end is in [0, capacity) and equals N mod capacity
\* after N enabled insertions; an insert writes the slot at the cursor it
\* finds and returns that slot's message buffer with size message_sz; m_is_full
\* is false while N < capacity, becomes true at the insertion that wraps the
\* cursor to 0 and never becomes false again.
C20_CursorInvariant ==
    /\ [](/\ m_end \in 0..(capacity(Recorder) - 1)
          /\ m_end = N % capacity(Recorder)
          /\ N < capacity(Recorder) => ~m_is_full)
    /\ [][/\ InsertCalled /\ g_flight_recorder_enabled =>
                /\ m_array'[m_end] = EntryOf(inserted'[Len(inserted')].site)
                /\ \A k \in DOMAIN m_array : k # m_end => m_array'[k] = m_array[k]
                /\ ret'.out_buffer = <<m_end>>
                /\ ret'.out_buffer_sz = MessageSz
                /\ m_end' = (m_end + 1) % capacity(Recorder)
          /\ (~m_is_full /\ m_is_full') =>
                m_end' = 0 /\ m_end = capacity(Recorder) - 1 /\ InsertCalled
          /\ (~m_is_full /\ InsertCalled /\ g_flight_recorder_enabled
                /\ m_end = capacity(Recorder) - 1) => m_is_full'
          /\ m_is_full => m_is_full']_vars

\* C20 witness: three insertions into a buffer of capacity 2; the third wrote
\* slot 0 again, the cursor is at 1 and the buffer has stayed full.
C20_Witness ==
    /\ capacity(Recorder) = 2 /\ N = 3 /\ ncalls = 3
    /\ m_end = 1 /\ m_is_full
    /\ ret.out_buffer = <<0>>
    /\ m_array[0] = EntryOf(inserted[3].site)
    /\ inserted[3].site # inserted[1].site

\* ------------------------------------------------------- the session (Spec)
\* C21: every node of the index has parent none or a parent that is a node
\* of the index; a node's parent is assigned in the call that creates the
\* node and does not change for as long as the node is in the index.
C21_IndexClosure ==
    /\ [](\A n \in DOMAIN g_index :
             g_index[n].m_parent = nullptr \/ g_index[n].m_parent \in DOMAIN g_index)
    /\ [][/\ \A n \in DOMAIN g_index \cap DOMAIN g_index' :
                g_index'[n].m_parent = g_index[n].m_parent
          /\ \A n \in DOMAIN g_index' \ DOMAIN g_index :
                /\ Calls /\ Call.created /\ Call.to = n
                /\ g_index'[n].m_parent \in {nullptr, Call.from}]_vars

\* C21 witness: a node with a parent in the index, and a node whose parent
\* lookup missed and that has parent none.
C21_Witness ==
    /\ g_recording /\ proc = "running" /\ Len(reports) = 2
    /\ \E n \in DOMAIN g_index, p \in DOMAIN g_index :
          /\ n # p
          /\ g_index[n].m_parent = p
          /\ g_index[p].m_parent = nullptr /\ g_index[p].m_type_ref # "ROOT"

\* a step that is a callback made while the recording flag is false
CalledOutside == ~g_recording /\ noutside' = noutside + 1

\* C22: an edge report made while the recording flag is false (before a
\* session, after it, or during the warm-up collections of jl_gc_trace)
\* leaves the reachability index and the watch set unchanged and reports no
\* target.
C22_OutsideSessionNoEffect ==
    [][CalledOutside =>
          /\ g_index' = g_index /\ g_index = EmptyIndex
          /\ g_targets' = g_targets
          /\ found' = found /\ reports' = reports
          /\ Recorder' = Recorder /\ fr_out' = fr_out
          /\ proc' = proc /\ ~g_recording']_vars

\* C22 witness: a callback was made during a warm-up collection that
\* jl_gc_trace runs before it switches the recording on, with a target
\* watched.
C22_Witness ==
    /\ pc = "warmup" /\ noutside = 1 /\ ~g_recording
    /\ g_targets # {} /\ g_index = EmptyIndex

\* the reports whose callback does not call target_found
FrameOps == {"task_to_frame", "frame_to_frame"}

\* the reports of the session that created the node of y
CreatedBy(y) == {i \in 1..Len(reports) : reports[i].created /\ reports[i].to = y}

\* C23 as claimed: an identity listed as not detected at session end was
\* never inserted into the reachability index during that session.
C23_Original ==
    SessionOver => \A y \in trace_out.undetected : CreatedBy(y) = {}

\* C23 amended: an identity listed as not detected at session end was
\* inserted into the index during the session only by a task-to-frame or
\* frame-to-frame report, or it was added to the watch set by jl_gc_addptr
\* while the session was recording; an identity watched from the start of the
\* recording, not added again, and inserted by a report of another kind was
\* reported found and is not listed.
C23_Amended ==
    SessionOver =>
        /\ \A y \in trace_out.undetected :
              \A i \in CreatedBy(y) : reports[i].op \in FrameOps \/ y \in late
        /\ \A y \in watched \ late :
              (\E i \in CreatedBy(y) : reports[i].op \notin FrameOps) =>
                  /\ y \notin trace_out.undetected
                  /\ \E k \in 1..Len(found) : found[k].m_pointer = y

\* C23 witness: a session has ended in which a task-to-frame report inserted
\* a watched identity, which is listed as not detected, and a root report
\* inserted another, which was found and is not listed.
C23_Witness ==
    /\ SessionOver /\ late = {} /\ Len(reports) = 2
    /\ \E y \in watched, z \in watched :
          /\ y \in trace_out.undetected
          /\ \E i \in CreatedBy(y) : reports[i].op = "task_to_frame"
          /\ z \notin trace_out.undetected
          /\ \E i \in CreatedBy(z) : reports[i].op = "root"

NoTargets == "There are no targets to trace..."

\* a step in which jl_gc_trace is called with an empty watch set and prints
\* its message
EmptyTrace == pc = "idle" /\ g_targets = {} /\ trace_out' # trace_out

\* C24: jl_gc_trace called with an empty watch set returns at once: no
\* collection is run, the recording flag and the event log's enable flag
\* stay false, and the index, the watch set and the event log are untouched;
\* all it does is print that there are no targets.
C24_EmptyTraceNoOp ==
    /\ [](trace_out.msg = NoTargets =>
             pc = "idle" /\ ~g_recording /\ ~g_flight_recorder_enabled)
    /\ [][EmptyTrace =>
             /\ trace_out'.msg = NoTargets
             /\ pc' = "idle" /\ gc_num_pause' = gc_num_pause
             /\ ~g_recording' /\ ~g_flight_recorder_enabled'
             /\ g_index' = g_index /\ g_targets' = g_targets
             /\ Recorder' = Recorder
             /\ UNCHANGED <<found, reports, nreports, fr_out, proc, watched, late>>]_vars

\* C24 witness: after a session that logged a report, jl_gc_trace was called
\* with the watch set empty; the session's history and the log are as the
\* session left them.
C24_Witness ==
    /\ trace_out.msg = NoTargets /\ g_targets = {}
    /\ Len(reports) = 1 /\ nreports = 1 /\ size(Recorder) > 0
    /\ gc_num_pause = WarmupPauses

\* ------------------------------------------------ the recorder (FRSpec)
\* C25: for every argument of dump (0 and arguments larger than size()
\* included) every logical index that dump passes to to_array_index is in
\* [0, size()), so to_array_index never takes the path that ends the
\* process.
C25_DumpInRange ==
    \A n \in DumpArgs :
        LET indices == dump_indices(Recorder, n)
        IN \A k \in 1..Len(indices) :
              /\ 0 <= indices[k] /\ indices[k] < size(Recorder)
              /\ to_array_index(Recorder, indices[k]) # -1

\* C25 witness: a buffer of capacity 3 that holds two entries was dumped with
\* the unbounded argument, which is larger than its size; the loop passed
\* the indices 0 and 1 and two lines were printed.
C25_Witness ==
    /\ capacity(Recorder) = 3 /\ N = 2 /\ ~m_is_full
    /\ dump_indices(Recorder, MaxNumEntries) = <<0, 1>>
    /\ dump_indices(Recorder, 0) = <<>>
    /\ Len(fr_out) = 2 /\ fr_out = dump(Recorder, MaxNumEntries)
====
